---- MODULE Spec2Model ----
(***************************************************************************)
(* The batch email-analysis pipeline of EmailAnalyzerScreen (App.tsx).     *)
(*                                                                         *)
(* handleAnalyze is an async function: every action below is one           *)
(* synchronous segment of it (from one await to the next), or one step of  *)
(* its environment: the useLLM client (model load, reply, failure) and     *)
(* React (render + effects).  The state hooks of the screen are updated    *)
(* in batches: the setState calls of one synchronous segment are           *)
(* published together (React 18 batching, new architecture).               *)
(*                                                                         *)
(* Strings whose content matters are sequences of one-character strings.   *)
(***************************************************************************)
EXTENDS Integers, Sequences, FiniteSets, TLC

VARIABLES
  EMAIL_SAMPLES,      \* the document source (fixed after Init)
  isReady,            \* useLLM: the model is loaded
  isGenerating,       \* useLLM: a generation is in progress
  messageHistory,     \* useLLM: the client's transcript (its latest value)
  systemPrompt,       \* useLLM: the system prompt of the conversation
  rendered,           \* isReady / isGenerating as captured by the last render
  messageHistoryRef,  \* messageHistoryRef.current
  configuredRef,      \* useEdgeModel: configuredRef.current
  analysisStatus,     \* "idle" | "running" | "done"
  processedCount,
  activeEmailId,      \* None or Some(id)
  results,            \* sequence of AnalysisResult
  analysisError,      \* None or Some(message)
  pc,                 \* where the handleAnalyze in flight is suspended
  index,              \* its loop variable
  event,              \* history: the step taken last
  calls,              \* history: configure / sendMessage calls since the last accepted start
  replies,            \* history: assistant replies produced since the last accepted start
  failedAt,           \* history: ordinal of the document the run failed on, 0 if none
  screen,             \* App: the screen shown, "home" | "emails"
  showInputModal,     \* the "Sample emails" modal is open
  selectedResult,     \* None or Some(result): the result shown in the detail modal
  outcome,            \* history: the promise of the last accepted handleAnalyze
  startedFrom,        \* history: what the last accepted handleAnalyze started from
  detached,           \* None or Some(position): the handleAnalyze left in flight by the session last left
  stalePc,            \* where a second handleAnalyze, started by the same handler instance, is suspended
  staleIndex,         \* its loop variable
  input,              \* ChatScreen: the text of the input field
  localError,         \* ChatScreen: None or Some(message)
  MOCK_SPEND_DATA,    \* mockSpendData: the transactions (generateMockTransactions: the list being built)
  now,                \* new Date(): the local calendar day, [y, m, d] with m from 0
  tzOffset,           \* hours the local time is ahead of UTC
  timeFilter,         \* AnalyticsScreen: "today" | "week" | "month" | "year"
  mockPc,             \* generateMockTransactions: "idle" | "loop" | "returned"
  mockI               \* generateMockTransactions: the loop variable i

vars == <<EMAIL_SAMPLES, isReady, isGenerating, messageHistory, systemPrompt,
          rendered, messageHistoryRef, configuredRef, analysisStatus,
          processedCount, activeEmailId, results, analysisError, pc, index,
          event, calls, replies, failedAt, screen, showInputModal,
          selectedResult, outcome, startedFrom, detached, stalePc, staleIndex,
          input, localError, MOCK_SPEND_DATA, now, tzOffset, timeFilter,
          mockPc, mockI>>

\* The state of the Email Analyzer session and of its histories.
emailVars ==
  <<EMAIL_SAMPLES, isReady, isGenerating, messageHistory, systemPrompt,
    rendered, messageHistoryRef, configuredRef, analysisStatus,
    processedCount, activeEmailId, results, analysisError, pc, index,
    event, calls, replies, failedAt, screen, showInputModal,
    selectedResult, outcome, startedFrom>>

\* A second handleAnalyze running beside the first.
staleVars == <<stalePc, staleIndex>>

\* ChatScreen's own state hooks.
chatVars == <<input, localError>>

\* AnalyticsScreen: its data, its clock and its filter.
analyticsVars == <<MOCK_SPEND_DATA, now, tzOffset, timeFilter>>

\* generateMockTransactions: its position.
mockVars == <<mockPc, mockI>>

\* What no step of the Email Analyzer session touches.
outsideEmails == <<staleVars, chatVars, analyticsVars, mockVars>>

\* App's screen and the presentation state of the Email Analyzer.
uiVars == <<screen, showInputModal, selectedResult>>

\* The pipeline state the screen publishes.
published == <<analysisStatus, processedCount, activeEmailId, results, analysisError>>

----------------------------------------------------------------------------
\* Bounds

MaxEmails == 3

\* The longest source for which two concurrent loops are followed.
MaxStaleEmails == 1

\* The most messages sent in one session of the chat.
MaxChatSends == 2

\* The most consecutive days, today included, with transactions in the
\* ledgers that are tried.
MaxDays == 12

\* The days generateMockTransactions goes back (365 in the source).
MaxMockDays == 3

\* Math.random() returns one of 0, 1/RandomGrain, .., (RandomGrain - 1)/RandomGrain.
RandomGrain == 5

----------------------------------------------------------------------------
\* Values

None == <<>>
Some(x) == <<x>>

\* Email: only the fields the pipeline reads (id, body).
Email(i) == [id |-> i, body |-> <<"b", ToString(i)>>]

EmailLists == { [i \in 1..n |-> Email(i)] : n \in 0..MaxEmails }

EMAIL_PURCHASE_EXTRACTION_PROMPT == "You are a precise financial information extractor."

\* What the assistant can answer: nothing, white space only, an amount, an
\* amount with white space around it.
Replies == { <<>>, <<" ", "\n">>, <<"4", "2">>, <<" ", "7", " ">> }

\* What the client can throw: an Error (with its message) or any other value.
Thrown == { [isError |-> TRUE,  message |-> "Model failed"],
            [isError |-> TRUE,  message |-> ""],
            [isError |-> FALSE, message |-> "oops"] }

WhiteSpace == { " ", "\n", "\t" }

----------------------------------------------------------------------------
\* Pure functions

RECURSIVE TrimStart(_)
TrimStart(s) ==
  IF s # <<>> /\ Head(s) \in WhiteSpace THEN TrimStart(Tail(s)) ELSE s

RECURSIVE TrimEnd(_)
TrimEnd(s) ==
  IF s # <<>> /\ s[Len(s)] \in WhiteSpace
  THEN TrimEnd(SubSeq(s, 1, Len(s) - 1)) ELSE s

\* String.prototype.trim
Trim(s) == TrimEnd(TrimStart(s))

\* ["Body:", email.body].join("\n")
buildEmailPrompt(email) == <<"Body:", "\n">> \o email.body

\* [...latestMessages].reverse().find((msg) => msg.role === "assistant")
RECURSIVE LastAssistant(_)
LastAssistant(history) ==
  IF history = <<>> THEN None
  ELSE IF history[Len(history)].role = "assistant"
       THEN Some(history[Len(history)])
       ELSE LastAssistant(SubSeq(history, 1, Len(history) - 1))

\* assistantReply?.content?.trim() ?? ""
ExtractAmount(history) ==
  IF LastAssistant(history) = None THEN <<>>
  ELSE Trim(LastAssistant(history)[1].content)

\* analysisErr instanceof Error ? analysisErr.message : "Failed to analyze emails."
CatchMessage(v) ==
  IF v.isError THEN v.message ELSE "Failed to analyze emails."

totalEmails == Len(EMAIL_SAMPLES)

\* Mutants of the guard: without the re-entrancy test, without the readiness test.
AnalyzeIgnoredNoRunningTest ==
  ~rendered.isReady \/ rendered.isGenerating

AnalyzeIgnoredNoReadyTest ==
  rendered.isGenerating \/ analysisStatus = "running"

\* <Modal visible={showInputModal} ...> / <Modal visible={!!selectedResult} ...>:
\* an open modal covers the screen, and a press outside its content lands on
\* its backdrop: the buttons and cards under it cannot be pressed.
ModalOpen == showInputModal \/ selectedResult # None

\* if (!isReady || isGenerating || analysisStatus === "running") return;
\* the handler reads the values captured by the render that created it.
AnalyzeIgnored ==
  ~rendered.isReady \/ rendered.isGenerating \/ analysisStatus = "running"

\* Mutant of the loop test: the last document is left out.
LoopStopsEarly(i) == i < totalEmails - 1

\* for (...; index < totalEmails; ...)
LoopContinues(i) == i < totalEmails

\* Mutant of the reset: the results of the previous run are kept.
KeptResults == results

\* setResults([])
ClearedResults == <<>>

\* Mutant of the reset: the error of the previous run is kept.
KeptError == analysisError

\* setAnalysisError(null)
ClearedError == None

\* Mutant of the empty-source branch: it returns without reporting Done.
EmptySourceStaysRunning == "running"

\* if (totalEmails === 0) { setAnalysisStatus("done"); return; }
EmptySourceStatus == "done"

\* Mutant of the loop start: a retry resumes at the document that failed.
ResumeIndex == IF failedAt > 0 THEN failedAt - 1 ELSE 0

\* for (let index = 0; ...
FirstIndex == 0

\* Mutant of the loop step: every other document is skipped.
SkipIndex(i) == i + 2

\* for (...; index += 1)
NextIndex(i) == i + 1

\* Mutant of the append: the new result is put first.
PrependResult(prev, r) == <<r>> \o prev

\* setResults((prev) => [...prev, { email, amount, prompt }])
AppendResult(prev, r) == Append(prev, r)

\* Mutant of configure: the conversation is carried over.
KeptMessageHistory == messageHistory

\* initialMessageHistory: []
InitialMessageHistory == <<>>

ConfigureCall(p) == [op |-> "configure", arg |-> p, context |-> <<>>]
SendCall(msg, ctx) == [op |-> "sendMessage", arg |-> msg, context |-> ctx]

----------------------------------------------------------------------------
\* The state of an EmailAnalyzerScreen that has just been mounted (and, while
\* the Home screen is shown, of the one that will be).
FreshSession ==
  [isReady |-> FALSE, isGenerating |-> FALSE, messageHistory |-> <<>>,
   systemPrompt |-> "", rendered |-> [isReady |-> FALSE, isGenerating |-> FALSE],
   messageHistoryRef |-> <<>>, configuredRef |-> FALSE,
   analysisStatus |-> "idle", processedCount |-> 0, activeEmailId |-> None,
   results |-> <<>>, analysisError |-> None,
   showInputModal |-> FALSE, selectedResult |-> None]

\* No second handleAnalyze, and no other screen mounted: the initial values of
\* ChatScreen's hooks and of AnalyticsScreen's filter, the generator not run.
OutsideEmailsInitial ==
  /\ stalePc = "none"
  /\ staleIndex = 0
  /\ input = <<>>
  /\ localError = None
  /\ MOCK_SPEND_DATA = <<>>
  /\ now = [y |-> 2024, m |-> 0, d |-> 1]
  /\ tzOffset = 0
  /\ timeFilter = "today"
  /\ mockPc = "idle"
  /\ mockI = 0

\* The application after construction: Home is shown, no screen is mounted.
AppInitial ==
  /\ screen = "home"
  /\ showInputModal = FALSE
  /\ selectedResult = None
  /\ outcome = "none"
  /\ startedFrom = "never"
  /\ isReady = FALSE
  /\ isGenerating = FALSE
  /\ messageHistory = <<>>
  /\ systemPrompt = ""
  /\ rendered = [isReady |-> FALSE, isGenerating |-> FALSE]
  /\ messageHistoryRef = <<>>
  /\ configuredRef = FALSE
  /\ analysisStatus = "idle"
  /\ processedCount = 0
  /\ activeEmailId = None
  /\ results = <<>>
  /\ analysisError = None
  /\ pc = "none"
  /\ index = 0
  /\ event = "init"
  /\ calls = <<>>
  /\ replies = <<>>
  /\ failedAt = 0
  /\ detached = None

Init ==
  /\ EMAIL_SAMPLES \in EmailLists
  /\ AppInitial
  /\ OutsideEmailsInitial

----------------------------------------------------------------------------
\* Mutant of the catch block: the run is reported as completed.
CatchReportsDone(v, k) ==
  /\ analysisError' = Some(CatchMessage(v))
  /\ analysisStatus' = "done"
  /\ activeEmailId' = None
  /\ pc' = "none"
  /\ index' = 0
  /\ failedAt' = k
  /\ outcome' = "resolved"

\* Mutant of the catch block: the active document is not cleared.
CatchKeepsActive(v, k) ==
  /\ analysisError' = Some(CatchMessage(v))
  /\ analysisStatus' = "idle"
  /\ UNCHANGED activeEmailId
  /\ pc' = "none"
  /\ index' = 0
  /\ failedAt' = k
  /\ outcome' = "resolved"

\* Mutant of the catch block: the value caught is thrown again, so the
\* promise of handleAnalyze is rejected.
CatchRethrows(v, k) ==
  /\ analysisError' = Some(CatchMessage(v))
  /\ analysisStatus' = "idle"
  /\ activeEmailId' = None
  /\ pc' = "none"
  /\ index' = 0
  /\ failedAt' = k
  /\ outcome' = "rejected"

\* Mutant of the catch block: the status is left at running.
CatchStaysRunning(v, k) ==
  /\ analysisError' = Some(CatchMessage(v))
  /\ analysisStatus' = "running"
  /\ activeEmailId' = None
  /\ pc' = "none"
  /\ index' = 0
  /\ failedAt' = k
  /\ outcome' = "resolved"

\* catch (analysisErr) { setAnalysisError(...); setAnalysisStatus("idle");
\*                       setActiveEmailId(null); }
\* for a value v thrown while the document of ordinal k was being processed.
Catch(v, k) ==
  /\ analysisError' = Some(CatchMessage(v))
  /\ analysisStatus' = "idle"
  /\ activeEmailId' = None
  /\ pc' = "none"
  /\ index' = 0
  /\ failedAt' = k
  /\ outcome' = "resolved"

\* The loop body for index i up to its first await: setActiveEmailId,
\* configure (which resets the client's conversation, or throws), then the
\* function is suspended on flushMicrotasks().  log is the call history so far
\* and err the error message the segment leaves when nothing is thrown.
LoopIteration(i, log, err) ==
  LET email == EMAIL_SAMPLES[i + 1] IN
  /\ calls' = Append(log, ConfigureCall(EMAIL_PURCHASE_EXTRACTION_PROMPT))
  /\ \/ /\ activeEmailId' = Some(email.id)
        /\ messageHistory' = InitialMessageHistory
        /\ systemPrompt' = EMAIL_PURCHASE_EXTRACTION_PROMPT
        /\ analysisStatus' = "running"
        /\ analysisError' = err
        /\ pc' = "flush1"
        /\ index' = i
        /\ failedAt' = 0
        /\ outcome' = "pending"
     \/ /\ \E v \in Thrown : Catch(v, i + 1)
        /\ UNCHANGED <<messageHistory, systemPrompt>>

\* handleAnalyze, from the press of "Analyse" to its first await (or return).
HandleAnalyze ==
  /\ UNCHANGED <<detached, outsideEmails>>
  /\ screen = "emails"
  /\ ~ModalOpen
  /\ event' = "handleAnalyze"
  /\ UNCHANGED <<EMAIL_SAMPLES, isReady, isGenerating, rendered,
                 messageHistoryRef, configuredRef, uiVars>>
  /\ IF AnalyzeIgnored
     THEN UNCHANGED <<messageHistory, systemPrompt, analysisStatus,
                      processedCount, activeEmailId, results, analysisError,
                      pc, index, calls, replies, failedAt, outcome,
                      startedFrom>>
     ELSE /\ results' = ClearedResults
          /\ processedCount' = 0
          /\ replies' = <<>>
          /\ startedFrom' = IF failedAt > 0 THEN "failed" ELSE analysisStatus
          /\ IF totalEmails = 0
             THEN /\ analysisError' = ClearedError
                  /\ analysisStatus' = EmptySourceStatus
                  /\ calls' = <<>>
                  /\ failedAt' = 0
                  /\ outcome' = "resolved"
                  /\ UNCHANGED <<messageHistory, systemPrompt, activeEmailId,
                                 pc, index>>
             ELSE LoopIteration(FirstIndex, <<>>, ClearedError)

\* The timer of the first flushMicrotasks() fires: sendMessage(prompt) is
\* called and the function is suspended on its promise.
AfterFirstFlush ==
  /\ UNCHANGED <<detached, outsideEmails>>
  /\ pc = "flush1"
  /\ event' = "afterFirstFlush"
  /\ LET prompt == buildEmailPrompt(EMAIL_SAMPLES[index + 1]) IN
       /\ calls' = Append(calls, SendCall(prompt, messageHistory))
       /\ messageHistory' =
            Append(messageHistory, [role |-> "user", content |-> prompt])
  /\ isGenerating' = TRUE
  /\ pc' = "send"
  /\ UNCHANGED <<EMAIL_SAMPLES, isReady, systemPrompt, rendered,
                 messageHistoryRef, configuredRef, analysisStatus,
                 processedCount, activeEmailId, results, analysisError, index,
                 replies, failedAt, uiVars, outcome, startedFrom>>

\* The client finishes the generation: the assistant reply is added to its
\* transcript and the promise of sendMessage resolves; the function sets the
\* timer of the second flushMicrotasks().
ClientReplies ==
  /\ UNCHANGED <<detached, outsideEmails>>
  /\ pc = "send"
  /\ event' = "clientReplies"
  /\ \E r \in Replies :
       /\ messageHistory' =
            Append(messageHistory, [role |-> "assistant", content |-> r])
       /\ replies' = Append(replies, r)
  /\ isGenerating' = FALSE
  /\ pc' = "flush2"
  /\ UNCHANGED <<EMAIL_SAMPLES, isReady, systemPrompt, rendered,
                 messageHistoryRef, configuredRef, analysisStatus,
                 processedCount, activeEmailId, results, analysisError, index,
                 calls, failedAt, uiVars, outcome, startedFrom>>

\* The client fails: the promise of sendMessage rejects and the catch block runs.
ClientThrows ==
  /\ UNCHANGED <<detached, outsideEmails>>
  /\ pc = "send"
  /\ event' = "clientThrows"
  /\ \E v \in Thrown : Catch(v, index + 1)
  /\ isGenerating' = FALSE
  /\ UNCHANGED <<EMAIL_SAMPLES, isReady, messageHistory, systemPrompt, rendered,
                 messageHistoryRef, configuredRef, processedCount, results,
                 calls, replies, uiVars, startedFrom>>

\* Mutant of the result: the body is stored in place of the prompt sent.
NewResultStoresBody ==
  [email  |-> EMAIL_SAMPLES[index + 1],
   amount |-> ExtractAmount(messageHistoryRef),
   prompt |-> EMAIL_SAMPLES[index + 1].body]

\* { email, amount, prompt } for the document at index, read from the ref.
NewResult ==
  [email  |-> EMAIL_SAMPLES[index + 1],
   amount |-> ExtractAmount(messageHistoryRef),
   prompt |-> buildEmailPrompt(EMAIL_SAMPLES[index + 1])]

\* Mutant of the increment: the document is counted twice.
CountedTwice(prev) == prev + 2

\* setProcessedCount((prev) => prev + 1)
NextProcessed(prev) == prev + 1

\* The timer of the second flushMicrotasks() fires: the reply is read from
\* messageHistoryRef.current, the result is appended, and the loop goes on
\* with the next document or ends.
AfterSecondFlush ==
  /\ UNCHANGED <<detached, outsideEmails>>
  /\ pc = "flush2"
  /\ event' = "afterSecondFlush"
  /\ results' = AppendResult(results, NewResult)
  /\ processedCount' = NextProcessed(processedCount)
  /\ IF LoopContinues(NextIndex(index))
     THEN LoopIteration(NextIndex(index), calls, analysisError)
     ELSE /\ activeEmailId' = None
          /\ analysisStatus' = "done"
          /\ pc' = "none"
          /\ index' = 0
          /\ outcome' = "resolved"
          /\ UNCHANGED <<messageHistory, systemPrompt, analysisError, calls,
                         failedAt>>
  /\ UNCHANGED <<EMAIL_SAMPLES, isReady, isGenerating, rendered,
                 messageHistoryRef, configuredRef, replies, uiVars,
                 startedFrom>>

\* useLLM finishes loading the model.
ModelLoaded ==
  /\ UNCHANGED <<detached, outsideEmails>>
  /\ screen = "emails"
  /\ ~isReady
  /\ isReady' = TRUE
  /\ event' = "modelLoaded"
  /\ UNCHANGED <<EMAIL_SAMPLES, isGenerating, messageHistory, systemPrompt,
                 rendered, messageHistoryRef, configuredRef, analysisStatus,
                 processedCount, activeEmailId, results, analysisError, pc,
                 index, calls, replies, failedAt, uiVars, outcome,
                 startedFrom>>

\* useEffect(() => { messageHistoryRef.current = messageHistory; }, [messageHistory])
MessageHistoryEffect == messageHistory

\* Mutant of useEdgeModel's effect: without the configuredRef test.
FirstConfigureDueWhenReady == isReady

\* useEdgeModel's effect: if (isReady && !configuredRef.current)
FirstConfigureDue == isReady /\ ~configuredRef

\* React renders the screen with the client's latest values and runs the
\* effects: useEdgeModel's first configure, and messageHistoryRef.current =
\* messageHistory.  Nothing orders this step with the timers of flushMicrotasks.
Render ==
  /\ UNCHANGED <<detached, outsideEmails>>
  /\ screen = "emails"
  /\ \/ rendered # [isReady |-> isReady, isGenerating |-> isGenerating]
     \/ messageHistoryRef # messageHistory
  /\ event' = "render"
  /\ rendered' = [isReady |-> isReady, isGenerating |-> isGenerating]
  /\ messageHistoryRef' = MessageHistoryEffect
  /\ IF FirstConfigureDue
     THEN /\ messageHistory' = <<>>
          /\ systemPrompt' = EMAIL_PURCHASE_EXTRACTION_PROMPT
          /\ configuredRef' = TRUE
          /\ calls' = Append(calls, ConfigureCall(EMAIL_PURCHASE_EXTRACTION_PROMPT))
     ELSE UNCHANGED <<messageHistory, systemPrompt, configuredRef, calls>>
  /\ UNCHANGED <<EMAIL_SAMPLES, isReady, isGenerating, analysisStatus,
                 processedCount, activeEmailId, results, analysisError, pc,
                 index, replies, failedAt, uiVars, outcome, startedFrom>>

\* Everything but uiVars and event.  The presentation actions leave it alone;
\* they are not recorded in event either, which keeps naming the last step
\* of the pipeline, of the client, of React or of the navigation.
pipelineVars ==
  <<EMAIL_SAMPLES, isReady, isGenerating, messageHistory, systemPrompt,
    rendered, messageHistoryRef, configuredRef, analysisStatus,
    processedCount, activeEmailId, results, analysisError, pc, index, calls,
    replies, failedAt, outcome, startedFrom>>

\* "View input emails": onPress={() => setShowInputModal(true)}
OpenInputModal ==
  /\ UNCHANGED <<detached, outsideEmails>>
  /\ screen = "emails"
  /\ ~ModalOpen
  /\ showInputModal' = TRUE
  /\ UNCHANGED <<pipelineVars, event, screen, selectedResult>>

\* The input modal's Close, backdrop and onRequestClose: setShowInputModal(false)
CloseInputModal ==
  /\ UNCHANGED <<detached, outsideEmails>>
  /\ screen = "emails"
  /\ showInputModal
  /\ showInputModal' = FALSE
  /\ UNCHANGED <<pipelineVars, event, screen, selectedResult>>

\* A result card: onPress={() => setSelectedResult(result)}
SelectResult ==
  /\ UNCHANGED <<detached, outsideEmails>>
  /\ screen = "emails"
  /\ ~ModalOpen
  /\ \E i \in 1..Len(results) : selectedResult' = Some(results[i])
  /\ UNCHANGED <<pipelineVars, event, screen, showInputModal>>

\* Mutant of the dismissal: closing the detail modal also empties the results.
DismissResultClearsResults ==
  /\ UNCHANGED <<detached, outsideEmails>>
  /\ screen = "emails"
  /\ selectedResult # None
  /\ selectedResult' = None
  /\ results' = <<>>
  /\ UNCHANGED <<EMAIL_SAMPLES, isReady, isGenerating, messageHistory,
                 systemPrompt, rendered, messageHistoryRef, configuredRef,
                 analysisStatus, processedCount, activeEmailId, analysisError,
                 pc, index, calls, replies, failedAt, outcome, startedFrom,
                 screen, showInputModal, event>>

\* The detail modal's Close, backdrop and onRequestClose: setSelectedResult(null)
DismissResult ==
  /\ UNCHANGED <<detached, outsideEmails>>
  /\ screen = "emails"
  /\ selectedResult # None
  /\ selectedResult' = None
  /\ UNCHANGED <<pipelineVars, event, screen, showInputModal>>

\* Home: onOpenEmails={() => setScreen("emails")}: a new EmailAnalyzerScreen
\* is mounted, with the initial values of its hooks.
OpenEmails ==
  /\ UNCHANGED <<detached, outsideEmails>>
  /\ screen = "home"
  /\ event' = "openEmails"
  /\ screen' = "emails"
  /\ UNCHANGED <<pipelineVars, showInputModal, selectedResult>>

\* Home button: onBack={() => setScreen("home")}: the EmailAnalyzerScreen is
\* unmounted and its state is discarded.  A handleAnalyze in flight keeps
\* going, but its setState calls address the unmounted component and are
\* dropped, and its client is the one of the unmounted useLLM: no variable of
\* a later session sees it.
SessionEnds ==
  /\ screen = "emails"
  /\ ~ModalOpen
  /\ event' = "back"
  /\ screen' = "home"
  /\ isReady' = FreshSession.isReady
  /\ isGenerating' = FreshSession.isGenerating
  /\ messageHistory' = FreshSession.messageHistory
  /\ systemPrompt' = FreshSession.systemPrompt
  /\ rendered' = FreshSession.rendered
  /\ messageHistoryRef' = FreshSession.messageHistoryRef
  /\ configuredRef' = FreshSession.configuredRef
  /\ analysisStatus' = FreshSession.analysisStatus
  /\ processedCount' = FreshSession.processedCount
  /\ activeEmailId' = FreshSession.activeEmailId
  /\ results' = FreshSession.results
  /\ analysisError' = FreshSession.analysisError
  /\ showInputModal' = FreshSession.showInputModal
  /\ selectedResult' = FreshSession.selectedResult
  /\ pc' = "none"
  /\ index' = 0
  /\ calls' = <<>>
  /\ replies' = <<>>
  /\ failedAt' = 0
  /\ outcome' = "none"
  /\ startedFrom' = "never"
  /\ UNCHANGED <<EMAIL_SAMPLES, outsideEmails>>

\* The Home button of the Email Analyzer; the run in flight is not followed.
Back ==
  /\ SessionEnds
  /\ UNCHANGED detached

\* Back again, the handleAnalyze in flight (if any) now followed after the
\* session is left.
BackLeavingRun ==
  /\ SessionEnds
  /\ detached' = IF pc # "none" THEN Some([pc |-> pc, index |-> index])
                 ELSE detached

\* The handleAnalyze of a session that was left goes on: same code, but its
\* setState calls address an unmounted component and are dropped, its ref and
\* its useLLM client are those of that component.  Only the run of the session
\* left last is followed.
\* The timer of its first flushMicrotasks() fires: sendMessage(prompt).
DetachedAfterFirstFlush ==
  /\ detached # None
  /\ detached[1].pc = "flush1"
  /\ detached' = Some([pc |-> "send", index |-> detached[1].index])
  /\ UNCHANGED <<emailVars, outsideEmails>>

\* Its sendMessage resolves.
DetachedClientReplies ==
  /\ detached # None
  /\ detached[1].pc = "send"
  /\ detached' = Some([pc |-> "flush2", index |-> detached[1].index])
  /\ UNCHANGED <<emailVars, outsideEmails>>

\* Its sendMessage rejects: the catch block runs and the function returns.
DetachedClientThrows ==
  /\ detached # None
  /\ detached[1].pc = "send"
  /\ detached' = None
  /\ UNCHANGED <<emailVars, outsideEmails>>

\* Mutant: the result of the detached run is appended to the results shown.
DetachedAfterSecondFlushPublishes ==
  /\ detached # None
  /\ detached[1].pc = "flush2"
  /\ detached' = None
  /\ results' = Append(results, [email  |-> EMAIL_SAMPLES[detached[1].index + 1],
                                 amount |-> <<>>,
                                 prompt |-> buildEmailPrompt(EMAIL_SAMPLES[detached[1].index + 1])])
  /\ processedCount' = processedCount + 1
  /\ UNCHANGED <<EMAIL_SAMPLES, isReady, isGenerating, messageHistory,
                 systemPrompt, rendered, messageHistoryRef, configuredRef,
                 analysisStatus, activeEmailId, analysisError, pc, index,
                 event, calls, replies, failedAt, screen, showInputModal,
                 selectedResult, outcome, startedFrom, outsideEmails>>

\* The timer of its second flushMicrotasks() fires: setResults and
\* setProcessedCount are dropped; the loop goes on with the next document
\* (configure returns or throws) or ends.
DetachedAfterSecondFlush ==
  /\ detached # None
  /\ detached[1].pc = "flush2"
  /\ IF LoopContinues(NextIndex(detached[1].index))
     THEN \/ detached' = Some([pc |-> "flush1",
                               index |-> NextIndex(detached[1].index)])
          \/ detached' = None
     ELSE detached' = None
  /\ UNCHANGED <<emailVars, outsideEmails>>

Next ==
  \/ HandleAnalyze
  \/ AfterFirstFlush
  \/ ClientReplies
  \/ ClientThrows
  \/ AfterSecondFlush
  \/ ModelLoaded
  \/ Render
  \/ OpenInputModal
  \/ CloseInputModal
  \/ SelectResult
  \/ DismissResult
  \/ OpenEmails
  \/ Back

Spec == Init /\ [][Next]_vars

\* The sessions of the Email Analyzer with the run a left session leaves in
\* flight: the pipeline and navigation steps of Next (no modal), Back keeping
\* track of the run, and the steps of that run.
TeardownNext ==
  \/ HandleAnalyze
  \/ AfterFirstFlush
  \/ ClientReplies
  \/ ClientThrows
  \/ AfterSecondFlush
  \/ ModelLoaded
  \/ Render
  \/ OpenEmails
  \/ BackLeavingRun
  \/ DetachedAfterFirstFlush
  \/ DetachedClientReplies
  \/ DetachedClientThrows
  \/ DetachedAfterSecondFlush

TeardownSpec == Init /\ [][TeardownNext]_vars

\* Two presses of "Analyse" delivered to the same handler instance, the
\* second before the render that follows the first: handleAnalyze reads
\* isReady, isGenerating and analysisStatus from its closure (App.tsx:1943,
\* 1993-2000), so the second invocation sees the values the first one saw and
\* passes the guard too.  Both run up to their first await: the setState calls
\* of the second repeat those of the first, configure is called twice (both
\* calls returning), and two loops are suspended on flushMicrotasks().
HandleAnalyzeTwice ==
  /\ screen = "emails"
  /\ ~ModalOpen
  /\ ~AnalyzeIgnored
  /\ totalEmails > 0
  /\ pc = "none"
  /\ stalePc = "none"
  /\ event' = "handleAnalyzeTwice"
  /\ results' = ClearedResults
  /\ processedCount' = 0
  /\ analysisError' = ClearedError
  /\ analysisStatus' = "running"
  /\ activeEmailId' = Some(EMAIL_SAMPLES[FirstIndex + 1].id)
  /\ messageHistory' = InitialMessageHistory
  /\ systemPrompt' = EMAIL_PURCHASE_EXTRACTION_PROMPT
  /\ calls' = <<ConfigureCall(EMAIL_PURCHASE_EXTRACTION_PROMPT),
               ConfigureCall(EMAIL_PURCHASE_EXTRACTION_PROMPT)>>
  /\ replies' = <<>>
  /\ pc' = "flush1"
  /\ index' = FirstIndex
  /\ stalePc' = "flush1"
  /\ staleIndex' = FirstIndex
  /\ failedAt' = 0
  /\ outcome' = "pending"
  /\ startedFrom' = IF failedAt > 0 THEN "failed" ELSE analysisStatus
  /\ UNCHANGED <<EMAIL_SAMPLES, isReady, isGenerating, rendered,
                 messageHistoryRef, configuredRef, uiVars, detached,
                 chatVars, analyticsVars, mockVars>>

\* The second loop: the timer of its first flushMicrotasks() fires and it
\* calls sendMessage(prompt), whatever the first loop is doing.
StaleAfterFirstFlush ==
  /\ stalePc = "flush1"
  /\ event' = "staleAfterFirstFlush"
  /\ LET prompt == buildEmailPrompt(EMAIL_SAMPLES[staleIndex + 1]) IN
       /\ calls' = Append(calls, SendCall(prompt, messageHistory))
       /\ messageHistory' =
            Append(messageHistory, [role |-> "user", content |-> prompt])
  /\ isGenerating' = TRUE
  /\ stalePc' = "send"
  /\ UNCHANGED <<EMAIL_SAMPLES, isReady, systemPrompt, rendered,
                 messageHistoryRef, configuredRef, analysisStatus,
                 processedCount, activeEmailId, results, analysisError, pc,
                 index, replies, failedAt, uiVars, outcome, startedFrom,
                 detached, staleIndex, chatVars, analyticsVars, mockVars>>

\* The second loop: its sendMessage resolves.
StaleClientReplies ==
  /\ stalePc = "send"
  /\ event' = "staleClientReplies"
  /\ \E r \in Replies :
       /\ messageHistory' =
            Append(messageHistory, [role |-> "assistant", content |-> r])
       /\ replies' = Append(replies, r)
  /\ isGenerating' = FALSE
  /\ stalePc' = "flush2"
  /\ UNCHANGED <<EMAIL_SAMPLES, isReady, systemPrompt, rendered,
                 messageHistoryRef, configuredRef, analysisStatus,
                 processedCount, activeEmailId, results, analysisError, pc,
                 index, calls, failedAt, uiVars, outcome, startedFrom,
                 detached, staleIndex, chatVars, analyticsVars, mockVars>>

\* The second loop: its sendMessage rejects (the client may refuse a message
\* while it is generating) and its catch block runs.
StaleClientThrows ==
  /\ stalePc = "send"
  /\ event' = "staleClientThrows"
  /\ \E v \in Thrown : analysisError' = Some(CatchMessage(v))
  /\ analysisStatus' = "idle"
  /\ activeEmailId' = None
  /\ isGenerating' = FALSE
  /\ stalePc' = "none"
  /\ staleIndex' = 0
  /\ UNCHANGED <<EMAIL_SAMPLES, isReady, messageHistory, systemPrompt,
                 rendered, messageHistoryRef, configuredRef, processedCount,
                 results, pc, index, calls, replies, failedAt, uiVars,
                 outcome, startedFrom, detached, chatVars, analyticsVars,
                 mockVars>>

\* The second loop: the timer of its second flushMicrotasks() fires; it
\* appends its result and goes on with its next document (configure
\* returning) or ends.
StaleAfterSecondFlush ==
  /\ stalePc = "flush2"
  /\ event' = "staleAfterSecondFlush"
  /\ results' =
       AppendResult(results,
                    [email  |-> EMAIL_SAMPLES[staleIndex + 1],
                     amount |-> ExtractAmount(messageHistoryRef),
                     prompt |-> buildEmailPrompt(EMAIL_SAMPLES[staleIndex + 1])])
  /\ processedCount' = NextProcessed(processedCount)
  /\ IF LoopContinues(NextIndex(staleIndex))
     THEN /\ activeEmailId' = Some(EMAIL_SAMPLES[NextIndex(staleIndex) + 1].id)
          /\ calls' = Append(calls, ConfigureCall(EMAIL_PURCHASE_EXTRACTION_PROMPT))
          /\ messageHistory' = InitialMessageHistory
          /\ systemPrompt' = EMAIL_PURCHASE_EXTRACTION_PROMPT
          /\ stalePc' = "flush1"
          /\ staleIndex' = NextIndex(staleIndex)
          /\ UNCHANGED analysisStatus
     ELSE /\ activeEmailId' = None
          /\ analysisStatus' = "done"
          /\ stalePc' = "none"
          /\ staleIndex' = 0
          /\ UNCHANGED <<calls, messageHistory, systemPrompt>>
  /\ UNCHANGED <<EMAIL_SAMPLES, isReady, isGenerating, rendered,
                 messageHistoryRef, configuredRef, analysisError, pc, index,
                 replies, failedAt, uiVars, outcome, startedFrom, detached,
                 chatVars, analyticsVars, mockVars>>

\* One session of the Email Analyzer in which every start is such a double
\* press; the first loop takes the steps it takes in Next.
StaleNext ==
  \/ OpenEmails
  \/ ModelLoaded
  \/ Render
  \/ HandleAnalyzeTwice
  \/ AfterFirstFlush
  \/ ClientReplies
  \/ ClientThrows
  \/ AfterSecondFlush
  \/ StaleAfterFirstFlush
  \/ StaleClientReplies
  \/ StaleClientThrows
  \/ StaleAfterSecondFlush

StaleInit == Init /\ totalEmails <= MaxStaleEmails

StaleSpec == StaleInit /\ [][StaleNext]_vars

----------------------------------------------------------------------------
\* ChatScreen.  Its useEdgeModel client is the one of the mounted screen:
\* isReady, isGenerating, messageHistory, systemPrompt, configuredRef and
\* rendered are those variables; pc = "send" while handleSend awaits
\* sendMessage.

SYSTEM_PROMPT ==
  "You are an on-device assistant. Provide concise, actionable replies and keep responses under 80 words unless more detail is requested."

\* What can be typed: nothing, white space only, a word, a word with white
\* space around it.
ChatInputs == { <<>>, <<" ">>, <<"h", "i">>, <<" ", "h", "i", "\n">> }

\* sendError instanceof Error ? sendError.message
\*   : "Something went wrong while generating a response."
SendErrorMessage(v) ==
  IF v.isError THEN v.message
  ELSE "Something went wrong while generating a response."

\* Mutant of the guard of handleSend: the input is not trimmed.
SendIgnoredUntrimmed ==
  input = <<>> \/ ~rendered.isReady \/ rendered.isGenerating

\* const trimmed = input.trim();
\* if (!trimmed || !isReady || isGenerating) return;
SendIgnored ==
  Trim(input) = <<>> \/ ~rendered.isReady \/ rendered.isGenerating

\* Home: onOpenChat={() => setScreen("chat")}
OpenChat ==
  /\ screen = "home"
  /\ event' = "openChat"
  /\ screen' = "chat"
  /\ UNCHANGED <<EMAIL_SAMPLES, isReady, isGenerating, messageHistory,
                 systemPrompt, rendered, messageHistoryRef, configuredRef,
                 analysisStatus, processedCount, activeEmailId, results,
                 analysisError, pc, index, calls, replies, failedAt,
                 showInputModal, selectedResult, outcome, startedFrom,
                 detached, outsideEmails>>

\* useLLM finishes loading the model.
ChatModelLoaded ==
  /\ screen = "chat"
  /\ ~isReady
  /\ isReady' = TRUE
  /\ event' = "modelLoaded"
  /\ UNCHANGED <<EMAIL_SAMPLES, isGenerating, messageHistory, systemPrompt,
                 rendered, messageHistoryRef, configuredRef, analysisStatus,
                 processedCount, activeEmailId, results, analysisError, pc,
                 index, calls, replies, failedAt, uiVars, outcome,
                 startedFrom, detached, outsideEmails>>

\* React renders the chat with the client's latest flags and runs
\* useEdgeModel's effect (its first configure, with SYSTEM_PROMPT).
ChatRender ==
  /\ screen = "chat"
  /\ rendered # [isReady |-> isReady, isGenerating |-> isGenerating]
  /\ event' = "render"
  /\ rendered' = [isReady |-> isReady, isGenerating |-> isGenerating]
  /\ IF FirstConfigureDue
     THEN /\ messageHistory' = <<>>
          /\ systemPrompt' = SYSTEM_PROMPT
          /\ configuredRef' = TRUE
          /\ calls' = Append(calls, ConfigureCall(SYSTEM_PROMPT))
     ELSE UNCHANGED <<messageHistory, systemPrompt, configuredRef, calls>>
  /\ UNCHANGED <<EMAIL_SAMPLES, isReady, isGenerating, messageHistoryRef,
                 analysisStatus, processedCount, activeEmailId, results,
                 analysisError, pc, index, replies, failedAt, uiVars,
                 outcome, startedFrom, detached, outsideEmails>>

\* <TextInput value={input} onChangeText={setInput}
\*            editable={isReady && !isGenerating} />: the user types.  Typing
\* takes several events of the host; the renders pending are done by then.
ChangeText ==
  /\ screen = "chat"
  /\ rendered = [isReady |-> isReady, isGenerating |-> isGenerating]
  /\ rendered.isReady /\ ~rendered.isGenerating
  /\ event' = "changeText"
  /\ \E t \in ChatInputs : input' = t
  /\ UNCHANGED <<EMAIL_SAMPLES, isReady, isGenerating, messageHistory,
                 systemPrompt, rendered, messageHistoryRef, configuredRef,
                 analysisStatus, processedCount, activeEmailId, results,
                 analysisError, pc, index, calls, replies, failedAt, uiVars,
                 outcome, startedFrom, detached, staleVars, localError,
                 analyticsVars, mockVars>>

\* handleSend, from the press of "Send" (or any other call of it) to its
\* await or its return.
HandleSend ==
  /\ screen = "chat"
  /\ event' = "handleSend"
  /\ IF SendIgnored
     THEN UNCHANGED <<input, localError, calls, messageHistory, isGenerating,
                      pc>>
     ELSE /\ Len(SelectSeq(calls, LAMBDA c : c.op = "sendMessage")) < MaxChatSends
          /\ localError' = None
          /\ input' = <<>>
          /\ calls' = Append(calls, SendCall(Trim(input), messageHistory))
          /\ messageHistory' =
               Append(messageHistory, [role |-> "user", content |-> Trim(input)])
          /\ isGenerating' = TRUE
          /\ pc' = "send"
  /\ UNCHANGED <<EMAIL_SAMPLES, isReady, systemPrompt, rendered,
                 messageHistoryRef, configuredRef, analysisStatus,
                 processedCount, activeEmailId, results, analysisError,
                 index, replies, failedAt, uiVars, outcome, startedFrom,
                 detached, staleVars, analyticsVars, mockVars>>

\* The client finishes the generation: sendMessage resolves and handleSend
\* returns.
ChatClientReplies ==
  /\ screen = "chat"
  /\ pc = "send"
  /\ event' = "clientReplies"
  /\ \E r \in Replies :
       messageHistory' =
         Append(messageHistory, [role |-> "assistant", content |-> r])
  /\ isGenerating' = FALSE
  /\ pc' = "none"
  /\ UNCHANGED <<EMAIL_SAMPLES, isReady, systemPrompt, rendered,
                 messageHistoryRef, configuredRef, analysisStatus,
                 processedCount, activeEmailId, results, analysisError,
                 index, calls, replies, failedAt, uiVars, outcome,
                 startedFrom, detached, outsideEmails>>

\* The client fails: sendMessage rejects and the catch block of handleSend
\* runs: setLocalError(...).
ChatClientThrows ==
  /\ screen = "chat"
  /\ pc = "send"
  /\ event' = "clientThrows"
  /\ \E v \in Thrown : localError' = Some(SendErrorMessage(v))
  /\ isGenerating' = FALSE
  /\ pc' = "none"
  /\ UNCHANGED <<EMAIL_SAMPLES, isReady, messageHistory, systemPrompt,
                 rendered, messageHistoryRef, configuredRef, analysisStatus,
                 processedCount, activeEmailId, results, analysisError,
                 index, calls, replies, failedAt, uiVars, outcome,
                 startedFrom, detached, staleVars, input, analyticsVars,
                 mockVars>>

\* ChatScreen's Home button: onBack={() => setScreen("home")}: the screen is
\* unmounted, its hooks and its client with it.
ChatBack ==
  /\ screen = "chat"
  /\ event' = "back"
  /\ screen' = "home"
  /\ isReady' = FALSE
  /\ isGenerating' = FALSE
  /\ messageHistory' = <<>>
  /\ systemPrompt' = ""
  /\ rendered' = [isReady |-> FALSE, isGenerating |-> FALSE]
  /\ configuredRef' = FALSE
  /\ pc' = "none"
  /\ calls' = <<>>
  /\ input' = <<>>
  /\ localError' = None
  /\ UNCHANGED <<EMAIL_SAMPLES, messageHistoryRef, analysisStatus,
                 processedCount, activeEmailId, results, analysisError,
                 index, replies, failedAt, showInputModal, selectedResult,
                 outcome, startedFrom, detached, staleVars, analyticsVars,
                 mockVars>>

ChatNext ==
  \/ OpenChat
  \/ ChatModelLoaded
  \/ ChatRender
  \/ ChangeText
  \/ HandleSend
  \/ ChatClientReplies
  \/ ChatClientThrows
  \/ ChatBack

ChatSpec == Init /\ [][ChatNext]_vars

----------------------------------------------------------------------------
\* Dates.  An instant (a Date, an ISO date string) is a number of hours
\* since 1970-01-01T00:00Z; a day is a number of days since 1970-01-01.
\* now holds the local calendar date [y, m, d] with m counted from 0, as
\* getFullYear(), getMonth() and getDate() return it; local time is UTC plus
\* tzOffset hours.

IsLeapYear(y) == (y % 4 = 0 /\ y % 100 # 0) \/ y % 400 = 0

DaysInMonth(y, m) ==
  CASE m = 1 -> IF IsLeapYear(y) THEN 29 ELSE 28
    [] m \in {3, 5, 8, 10} -> 30
    [] OTHER -> 31

LeapYearsBefore(y) == ((y - 1) \div 4) - ((y - 1) \div 100) + ((y - 1) \div 400)

DaysBeforeYear(y) == 365 * (y - 1970) + LeapYearsBefore(y) - LeapYearsBefore(1970)

RECURSIVE DaysBeforeMonth(_, _)
DaysBeforeMonth(y, m) ==
  IF m = 0 THEN 0 ELSE DaysBeforeMonth(y, m - 1) + DaysInMonth(y, m - 1)

\* The day of new Date(y, m, d), and of setDate, setMonth and setFullYear:
\* a month or a day of the month out of range carries over.
MakeDay(y, m, d) ==
  LET yy == y + (m \div 12)
      mm == m % 12
  IN  DaysBeforeYear(yy) + DaysBeforeMonth(yy, mm) + (d - 1)

\* getFullYear(), getMonth(), getDate() of a day.
CivilDate(day) ==
  LET yy == CHOOSE c \in (now.y - 3)..(now.y + 1) :
              DaysBeforeYear(c) <= day /\ day < DaysBeforeYear(c + 1)
      mm == CHOOSE c \in 0..11 :
              /\ MakeDay(yy, c, 1) <= day
              /\ day < MakeDay(yy, c, 1) + DaysInMonth(yy, c)
  IN  [y |-> yy, m |-> mm, d |-> day - MakeDay(yy, mm, 1) + 1]

\* The instant of local midnight of a day.
LocalMidnight(day) == day * 24 - tzOffset

\* The local day and the UTC day of an instant.
LocalDay(t) == (t + tzOffset) \div 24
UtcDay(t) == t \div 24

----------------------------------------------------------------------------
\* mockSpendData: the ledgers tried.  generateMockTransactions stamps every
\* transaction of the day i days before the load with the instant of the
\* load minus i days; a day has up to five transactions, possibly none.

categories ==
  << "Food & Dining", "Shopping", "Transportation", "Entertainment",
     "Bills & Utilities", "Healthcare", "Travel", "Groceries" >>

\* The dates "now" that are tried: month ends, a leap day, a year end.
Nows ==
  { [y |-> 2024, m |-> 2,  d |-> 31],
    [y |-> 2024, m |-> 1,  d |-> 29],
    [y |-> 2025, m |-> 0,  d |-> 1],
    [y |-> 2023, m |-> 2,  d |-> 1],
    [y |-> 2024, m |-> 6,  d |-> 15] }

TzOffsets == { -8, 5 }

\* The local hour of the load of the module.
LoadHours == { 1, 22 }

\* Days between the load of the module and the use of the screen.
LoadLags == { 0, 1, 400 }

\* The days, counted back from the load, that got transactions.
DaySets ==
  { 0..(k - 1) : k \in 1..MaxDays }
    \cup { {0, 7, 8}, {0, 27, 28, 29, 30, 31, 32}, {0, 3, 20, 100, 364} }

\* How many categories the transactions are spread over.
Spreads == { 1, 6, 8 }

AmountModes == { "flat", "byDay" }

\* A set of numbers as a sequence, smallest first.
RECURSIVE SortedSeq(_)
SortedSeq(S) ==
  IF S = {} THEN <<>>
  ELSE LET least == CHOOSE x \in S : \A z \in S : x <= z
       IN  <<least>> \o SortedSeq(S \ {least})

\* The transactions of the day i days before the load, in cents.
DayTransactions(load, i, spread, mode) ==
  LET txCount == IF i = 0 THEN 2 ELSE 1 + (i % 2)
  IN  [j \in 1..txCount |->
        [date |-> load - 24 * i,
         category |-> categories[((i + j) % spread) + 1],
         amount |-> IF mode = "flat" THEN 2500
                    ELSE 1000 + 100 * (i % 7) + j]]

RECURSIVE Ledger(_, _, _, _)
Ledger(load, days, spread, mode) ==
  IF days = <<>> THEN <<>>
  ELSE DayTransactions(load, Head(days), spread, mode)
         \o Ledger(load, Tail(days), spread, mode)

----------------------------------------------------------------------------
\* AnalyticsScreen

TimeFilters == { "today", "week", "month", "year" }

\* const today = new Date(now.getFullYear(), now.getMonth(), now.getDate());
today == LocalMidnight(MakeDay(now.y, now.m, now.d))

\* weekAgo.setDate(weekAgo.getDate() - 7)
weekAgo == LocalMidnight(MakeDay(now.y, now.m, now.d - 7))

\* monthAgo.setMonth(monthAgo.getMonth() - 1)
monthAgo == LocalMidnight(MakeDay(now.y, now.m - 1, now.d))

\* Mutant of yearAgo: the day before.
yearAgoIsYesterday == LocalMidnight(MakeDay(now.y, now.m, now.d - 1))

\* yearAgo.setFullYear(yearAgo.getFullYear() - 1)
yearAgo == LocalMidnight(MakeDay(now.y - 1, now.m, now.d))

\* The switch of the filter callback.
Selects(filter, tx) ==
  CASE filter = "today" -> tx.date >= today
    [] filter = "week"  -> tx.date >= weekAgo
    [] filter = "month" -> tx.date >= monthAgo
    [] filter = "year"  -> tx.date >= yearAgo
    [] OTHER -> TRUE

Filtered(filter) ==
  SelectSeq(MOCK_SPEND_DATA, LAMBDA tx : Selects(filter, tx))

filteredTransactions == Filtered(timeFilter)

RECURSIVE SumAmounts(_)
SumAmounts(txs) ==
  IF txs = <<>> THEN 0 ELSE SumAmounts(Tail(txs)) + Head(txs).amount

\* filteredTransactions.reduce((sum, tx) => sum + tx.amount, 0)
totalSpend == SumAmounts(filteredTransactions)

\* categoryMap after the forEach, as Object.entries lists it: one entry for
\* each category, in the order of their first transactions.
RECURSIVE CategoryEntries(_, _)
CategoryEntries(entries, txs) ==
  IF txs = <<>> THEN entries
  ELSE LET tx == Head(txs)
           at == { k \in 1..Len(entries) : entries[k].name = tx.category }
       IN  IF at = {}
           THEN CategoryEntries(
                  Append(entries, [name |-> tx.category, amount |-> tx.amount]),
                  Tail(txs))
           ELSE CategoryEntries(
                  [k \in 1..Len(entries) |->
                     IF k \in at
                     THEN [entries[k] EXCEPT !.amount = @ + tx.amount]
                     ELSE entries[k]],
                  Tail(txs))

\* Mutant of the comparison of the sort: smallest amount first.
SortsBefore_Ascending(a, b) == a.amount < b.amount

\* (a, b) => b.amount - a.amount is negative: a goes before b.
SortsBefore(a, b) == b.amount - a.amount < 0

\* Array.prototype.sort, which is stable: an entry goes behind those that
\* do not sort after it.
RECURSIVE SortEntries(_)
SortEntries(entries) ==
  IF entries = <<>> THEN <<>>
  ELSE LET n == Len(entries)
           last == entries[n]
           front == SortEntries(SubSeq(entries, 1, n - 1))
           keep == { k \in 1..Len(front) : ~SortsBefore(last, front[k]) }
           cut == IF keep = {} THEN 0
                  ELSE CHOOSE k \in keep : \A z \in keep : z <= k
       IN  SubSeq(front, 1, cut) \o <<last>> \o SubSeq(front, cut + 1, Len(front))

spendByCategory == SortEntries(CategoryEntries(<<>>, filteredTransactions))

\* Array.prototype.slice(0, k)
Slice(seq, k) == SubSeq(seq, 1, IF Len(seq) < k THEN Len(seq) ELSE k)

\* spendByCategory.slice(0, 6).map(...): name and amount of each slice.
pieChartData ==
  LET top == Slice(spendByCategory, 6)
  IN  [k \in 1..Len(top) |-> [name |-> top[k].name, amount |-> top[k].amount]]

\* cat.name.length > 8 ? cat.name.substring(0, 8) + "..." : cat.name, on
\* each of the eight names.
BarLabel(name) ==
  CASE name = "Food & Dining"     -> "Food & D..."
    [] name = "Shopping"          -> "Shopping"
    [] name = "Transportation"    -> "Transpor..."
    [] name = "Entertainment"     -> "Entertai..."
    [] name = "Bills & Utilities" -> "Bills & ..."
    [] name = "Healthcare"        -> "Healthca..."
    [] name = "Travel"            -> "Travel"
    [] name = "Groceries"         -> "Grocerie..."

categoryBarData ==
  LET topCategories == Slice(spendByCategory, 5)
  IN  [labels |-> [k \in 1..Len(topCategories) |-> BarLabel(topCategories[k].name)],
       data |-> [k \in 1..Len(topCategories) |-> topCategories[k].amount]]

\* Object.keys(dailyMap).sort(): the UTC days (toISOString().split("T")[0])
\* of the transactions selected, oldest first.
sortedDates ==
  SortedSeq({ UtcDay(filteredTransactions[k].date) :
                k \in 1..Len(filteredTransactions) })

\* dailyMap[dateKey]
DailyAmount(txs, dateKey) ==
  SumAmounts(SelectSeq(txs, LAMBDA tx : UtcDay(tx.date) = dateKey))

\* timeFilter === "today" ? 1 : Math.min(sortedDates.length, 10)
numPoints ==
  IF timeFilter = "today" THEN 1
  ELSE IF Len(sortedDates) < 10 THEN Len(sortedDates) ELSE 10

\* Math.max(1, Math.floor(sortedDates.length / numPoints)); 0 / 0 is NaN,
\* and so is Math.max(1, NaN).
step ==
  IF numPoints = 0 THEN "NaN"
  ELSE LET q == Len(sortedDates) \div numPoints
       IN  IF q < 1 THEN 1 ELSE q

\* The values of i in for (let i = 0; i < sortedDates.length; i += step):
\* the test fails at once when there are no dates, whatever step is.
RECURSIVE LoopIndices(_, _, _)
LoopIndices(i, length, by) ==
  IF i < length THEN <<i>> \o LoopIndices(i + by, length, by) ELSE <<>>

\* `${date.getMonth() + 1}/${date.getDate()}` of new Date(dateKey), which
\* is midnight UTC of that day.
DateLabel(dateKey) ==
  LET date == CivilDate(LocalDay(dateKey * 24))
  IN  <<date.m + 1, date.d>>

dailySpendData ==
  LET txs == filteredTransactions
      dates == sortedDates
      at == LoopIndices(0, Len(dates), step)
  IN  [labels |-> [k \in 1..Len(at) |-> DateLabel(dates[at[k] + 1])],
       data |-> [k \in 1..Len(at) |-> DailyAmount(txs, dates[at[k] + 1])]]

\* Home: onOpenAnalytics={() => setScreen("analytics")}; the screen mounts
\* with the filter "today".
OpenAnalytics ==
  /\ screen = "home"
  /\ event' = "openAnalytics"
  /\ screen' = "analytics"
  /\ timeFilter' = "today"
  /\ UNCHANGED <<EMAIL_SAMPLES, isReady, isGenerating, messageHistory,
                 systemPrompt, rendered, messageHistoryRef, configuredRef,
                 analysisStatus, processedCount, activeEmailId, results,
                 analysisError, pc, index, calls, replies, failedAt,
                 showInputModal, selectedResult, outcome, startedFrom,
                 detached, staleVars, chatVars, MOCK_SPEND_DATA, now,
                 tzOffset, mockVars>>

\* A filter button: onPress={() => setTimeFilter(btn.key)}
SetTimeFilter ==
  /\ screen = "analytics"
  /\ event' = "setTimeFilter"
  /\ \E key \in TimeFilters : timeFilter' = key
  /\ UNCHANGED <<EMAIL_SAMPLES, isReady, isGenerating, messageHistory,
                 systemPrompt, rendered, messageHistoryRef, configuredRef,
                 analysisStatus, processedCount, activeEmailId, results,
                 analysisError, pc, index, calls, replies, failedAt, uiVars,
                 outcome, startedFrom, detached, staleVars, chatVars,
                 MOCK_SPEND_DATA, now, tzOffset, mockVars>>

\* The screen's Home button: onBack={() => setScreen("home")}
AnalyticsBack ==
  /\ screen = "analytics"
  /\ event' = "back"
  /\ screen' = "home"
  /\ timeFilter' = "today"
  /\ UNCHANGED <<EMAIL_SAMPLES, isReady, isGenerating, messageHistory,
                 systemPrompt, rendered, messageHistoryRef, configuredRef,
                 analysisStatus, processedCount, activeEmailId, results,
                 analysisError, pc, index, calls, replies, failedAt,
                 showInputModal, selectedResult, outcome, startedFrom,
                 detached, staleVars, chatVars, MOCK_SPEND_DATA, now,
                 tzOffset, mockVars>>

AnalyticsNext ==
  \/ OpenAnalytics
  \/ SetTimeFilter
  \/ AnalyticsBack

\* The module was loaded LoadLags days before "now", at one of LoadHours.
AnalyticsInit ==
  /\ EMAIL_SAMPLES = <<>>
  /\ AppInitial
  /\ stalePc = "none"
  /\ staleIndex = 0
  /\ input = <<>>
  /\ localError = None
  /\ mockPc = "idle"
  /\ mockI = 0
  /\ timeFilter = "today"
  /\ now \in Nows
  /\ tzOffset \in TzOffsets
  /\ \E lag \in LoadLags, hour \in LoadHours, days \in DaySets,
        spread \in Spreads, mode \in AmountModes :
       MOCK_SPEND_DATA =
         Ledger(LocalMidnight(MakeDay(now.y, now.m, now.d - lag)) + hour,
                SortedSeq(days), spread, mode)

AnalyticsSpec == AnalyticsInit /\ [][AnalyticsNext]_vars

----------------------------------------------------------------------------
\* generateMockTransactions, run once when mockSpendData is loaded.
\* MOCK_SPEND_DATA holds the array "transactions" while it is built and the
\* sorted array once the function has returned.  now carries the local hour
\* of the load as well.  A draw r stands for Math.random() = r / RandomGrain.
\* The descriptions, which nothing reads, are left out.

Draws == 0..(RandomGrain - 1)

\* Math.floor(Math.random() * k)
FloorOfRandomTimes(r, k) == (r * k) \div RandomGrain

\* The loads tried: in a leap year just after February, and on 1 January.
MockLoads ==
  { [y |-> 2024, m |-> 2, d |-> 2, h |-> 1],
    [y |-> 2025, m |-> 0, d |-> 1, h |-> 22] }

\* i === 0 ? Math.floor(Math.random() * 4) + 2 : Math.floor(Math.random() * 5)
txCount(i, r) ==
  IF i = 0 THEN FloorOfRandomTimes(r, 4) + 2 ELSE FloorOfRandomTimes(r, 5)

\* The switch on the category: Math.random() * span + base, in dollars.
AmountSpan(category) ==
  CASE category = "Food & Dining"     -> [span |-> 80,  base |-> 10]
    [] category = "Shopping"          -> [span |-> 200, base |-> 20]
    [] category = "Transportation"    -> [span |-> 50,  base |-> 5]
    [] category = "Entertainment"     -> [span |-> 60,  base |-> 15]
    [] category = "Bills & Utilities" -> [span |-> 150, base |-> 50]
    [] category = "Healthcare"        -> [span |-> 100, base |-> 20]
    [] category = "Travel"            -> [span |-> 500, base |-> 100]
    [] category = "Groceries"         -> [span |-> 80,  base |-> 20]
    [] OTHER                          -> [span |-> 50,  base |-> 10]

\* Math.round(amount * 100) / 100, in cents.
RoundedAmount(category, r) ==
  LET a == AmountSpan(category)
  IN  ((2 * r * a.span * 100) + RandomGrain) \div (2 * RandomGrain) + a.base * 100

\* const date = new Date(now); date.setDate(date.getDate() - i);
\* date.toISOString()
MockDate(i) == LocalMidnight(MakeDay(now.y, now.m, now.d - i)) + now.h

\* The inner loop for the day i: txCount transactions; the draws for the
\* category and for the amount are taken equal within a day.
MockDayTransactions(i, rCount, rEach) ==
  LET category == categories[FloorOfRandomTimes(rEach, Len(categories)) + 1]
  IN  [j \in 1..txCount(i, rCount) |->
        [id |-> <<MockDate(i), j - 1>>,
         amount |-> RoundedAmount(category, rEach),
         category |-> category,
         date |-> MockDate(i)]]

\* (a, b) => new Date(b.date).getTime() - new Date(a.date).getTime() is
\* negative: a goes before b.
NewerFirst(a, b) == b.date - a.date < 0

\* transactions.sort(...), which is stable.
RECURSIVE SortTransactions(_)
SortTransactions(txs) ==
  IF txs = <<>> THEN <<>>
  ELSE LET n == Len(txs)
           last == txs[n]
           front == SortTransactions(SubSeq(txs, 1, n - 1))
           keep == { k \in 1..Len(front) : ~NewerFirst(last, front[k]) }
           cut == IF keep = {} THEN 0
                  ELSE CHOOSE k \in keep : \A z \in keep : z <= k
       IN  SubSeq(front, 1, cut) \o <<last>> \o SubSeq(front, cut + 1, Len(front))

\* The module is loaded: const transactions = []; const now = new Date();
MockLoad ==
  /\ mockPc = "idle"
  /\ mockPc' = "loop"
  /\ mockI' = 0
  /\ MOCK_SPEND_DATA' = <<>>
  /\ UNCHANGED <<emailVars, detached, staleVars, chatVars, now,
                 tzOffset, timeFilter>>

\* One turn of for (let i = 0; i < 365; i++), with MaxMockDays for 365.
MockDay ==
  /\ mockPc = "loop"
  /\ mockI < MaxMockDays
  /\ \E rCount \in Draws, rEach \in Draws :
       MOCK_SPEND_DATA' =
         MOCK_SPEND_DATA \o MockDayTransactions(mockI, rCount, rEach)
  /\ mockI' = mockI + 1
  /\ UNCHANGED <<emailVars, detached, staleVars, chatVars, now,
                 tzOffset, timeFilter, mockPc>>

\* The loop is left: return transactions.sort(...)
MockReturn ==
  /\ mockPc = "loop"
  /\ mockI >= MaxMockDays
  /\ MOCK_SPEND_DATA' = SortTransactions(MOCK_SPEND_DATA)
  /\ mockPc' = "done"
  /\ UNCHANGED <<emailVars, detached, staleVars, chatVars, now,
                 tzOffset, timeFilter, mockI>>

MockNext ==
  \/ MockLoad
  \/ MockDay
  \/ MockReturn

MockInit ==
  /\ EMAIL_SAMPLES = <<>>
  /\ AppInitial
  /\ stalePc = "none"
  /\ staleIndex = 0
  /\ input = <<>>
  /\ localError = None
  /\ MOCK_SPEND_DATA = <<>>
  /\ now \in MockLoads
  /\ tzOffset = 0
  /\ timeFilter = "today"
  /\ mockPc = "idle"
  /\ mockI = 0

MockSpec == MockInit /\ [][MockNext]_vars

\* The run's own steps are taken when they can be: the timers of
\* flushMicrotasks() fire (setTimeout(resolve, 0)), and every sendMessage
\* call returns or throws.  Nothing obliges the user to press anything.
FairSpec ==
  /\ Spec
  /\ WF_vars(AfterFirstFlush)
  /\ WF_vars(ClientReplies \/ ClientThrows)
  /\ WF_vars(AfterSecondFlush)

----------------------------------------------------------------------------
\* Properties

InOrder(rs) == \A i \in 1..Len(rs) : rs[i].email = EMAIL_SAMPLES[i]

CountCalls(op) == Cardinality({ j \in 1..Len(calls) : calls[j].op = op })

\* What a press of "Analyse" that is ignored must leave alone: the published
\* pipeline state, the calls issued to the client, the run in flight.
untouchedByIgnoredStart ==
  <<published, calls, pc, index, messageHistory, systemPrompt, replies, failedAt>>

C4_FailureMessageNonEmpty ==
  failedAt > 0 => (analysisError # None /\ analysisError # Some(""))

C7_AmountIsOwnReply ==
  \A i \in 1..Len(results) : results[i].amount = Trim(replies[i])

C9_StartWhileNotReadyOrBusyIsNoOp ==
  [][((~isReady \/ isGenerating) /\ event' = "handleAnalyze")
       => UNCHANGED untouchedByIgnoredStart]_vars

C9_Witness ==
  /\ event = "handleAnalyze"
  /\ ~isReady
  /\ analysisStatus = "idle"
  /\ analysisError = None
  /\ calls = <<>>

\* C10: a reply that is empty or white space only does not fail the run on
\* its document, and the result appended for that document has the empty
\* string as amount and is counted.
C10_EmptyReplyGivesEmptyAmount ==
  \A i \in 1..Len(replies) :
    Trim(replies[i]) = <<>> =>
      /\ failedAt # i
      /\ i <= Len(results) =>
           /\ results[i].amount = <<>>
           /\ results[i].email = EMAIL_SAMPLES[i]
           /\ processedCount >= i

\* A step in which handleAnalyze is invoked and passes its guard.
StartAccepted == HandleAnalyze /\ ~AnalyzeIgnored

\* The sendMessage calls since the last accepted start, in the order issued.
Sends == SelectSeq(calls, LAMBDA c : c.op = "sendMessage")

\* The j-th message submitted is the prompt of the j-th document.
SendsInSourceOrder ==
  \A j \in 1..Len(Sends) :
    /\ j <= totalEmails
    /\ Sends[j].arg = buildEmailPrompt(EMAIL_SAMPLES[j])

\* The state right after an accepted start that entered the loop: nothing
\* processed yet, the first document active, one configure issued.
AtFirstDocument ==
  /\ index' = 0
  /\ pc' = "flush1"
  /\ activeEmailId' = Some(EMAIL_SAMPLES[1].id)
  /\ calls' = <<ConfigureCall(EMAIL_PURCHASE_EXTRACTION_PROMPT)>>

C12_RetryAfterFailureStartsOver ==
  /\ [][(failedAt > 0 /\ StartAccepted) =>
          /\ results' = <<>>
          /\ processedCount' = 0
          /\ analysisError' = None \/ failedAt' = 1
          /\ analysisStatus' = "running" =>
               (AtFirstDocument /\ analysisError' = None)]_vars
  /\ [](startedFrom = "failed" =>
          /\ SendsInSourceOrder
          /\ InOrder(results)
          /\ Len(results) = processedCount
          /\ analysisStatus = "done" => Len(results) = totalEmails)

C12_Witness ==
  /\ startedFrom = "failed"
  /\ analysisStatus = "running"
  /\ totalEmails >= 2
  /\ processedCount = 1
  /\ pc = "send"
  /\ analysisError = None

\* C13: with an empty source no state has status running, a result, an
\* active document, an error or a suspended run, and an accepted start ends
\* in that very step with status done, no result and no configure or
\* sendMessage call issued.
C13_EmptySourceGoesStraightToDone ==
  /\ [](totalEmails = 0 =>
          /\ analysisStatus # "running"
          /\ results = <<>>
          /\ activeEmailId = None
          /\ analysisError = None
          /\ pc = "none"
          /\ Sends = <<>>)
  /\ [][(totalEmails = 0 /\ StartAccepted) =>
          /\ analysisStatus' = "done"
          /\ results' = <<>>
          /\ processedCount' = 0
          /\ calls' = <<>>
          /\ outcome' = "resolved"]_vars

C13_Witness ==
  /\ totalEmails = 0
  /\ event = "handleAnalyze"
  /\ startedFrom = "idle"
  /\ analysisStatus = "done"
  /\ results = <<>>
  /\ calls = <<>>

C16_FailureIsNotPropagated ==
  /\ outcome \in {"none", "pending", "resolved"}
  /\ failedAt > 0 =>
       /\ outcome = "resolved"
       /\ analysisStatus = "idle"
       /\ analysisError # None
       /\ pc = "none"

C16_Witness ==
  /\ failedAt = 2
  /\ event = "clientThrows"
  /\ outcome = "resolved"
  /\ analysisError = Some("Model failed")
  /\ Len(results) = 1

\* A step of the user that is not a navigation: a press of "Analyse", or a
\* modal opened, closed, a result selected or dismissed.
CallerStepOnScreen ==
  \/ HandleAnalyze
  \/ showInputModal' # showInputModal
  \/ selectedResult' # selectedResult

C18_ResultsOnlyGrowByAppending ==
  [][results' # results =>
       \/ /\ StartAccepted
          /\ results' = <<>>
       \/ /\ event' = "afterSecondFlush"
          /\ Len(results') = Len(results) + 1
          /\ SubSeq(results', 1, Len(results)) = results
       \/ /\ event' = "back"
          /\ screen' = "home"]_vars

C18_Witness ==
  /\ Len(results) = 3
  /\ event = "afterSecondFlush"
  /\ startedFrom = "failed"
  /\ analysisStatus = "done"

\* The steps of the status that C19 lists, and the end of the session.
ListedStatusStep ==
  \/ /\ StartAccepted
     /\ analysisStatus \in {"idle", "done"}
     /\ totalEmails > 0
     /\ analysisStatus' = "running"
  \/ /\ StartAccepted
     /\ analysisStatus \in {"idle", "done"}
     /\ totalEmails = 0
     /\ analysisStatus' = "done"
  \/ /\ event' = "afterSecondFlush"
     /\ analysisStatus = "running"
     /\ analysisStatus' = "done"
     /\ processedCount' = totalEmails
  \/ /\ event' \in {"afterSecondFlush", "clientThrows"}
     /\ analysisStatus = "running"
     /\ analysisStatus' = "idle"
     /\ analysisError' # None
  \/ /\ event' = "back"
     /\ screen' = "home"

C20_PresentationLeavesPipelineAlone ==
  [][((showInputModal' # showInputModal \/ selectedResult' # selectedResult)
        /\ screen' = "emails") =>
       UNCHANGED <<published, pc, index, calls, replies, failedAt,
                   messageHistory, messageHistoryRef>>]_vars

C20_Witness ==
  /\ analysisStatus = "running"
  /\ showInputModal
  /\ processedCount = 1
  /\ pc = "flush1"

\* The pipeline state of a session that has just been mounted.
FreshPipeline ==
  /\ analysisStatus = FreshSession.analysisStatus
  /\ processedCount = FreshSession.processedCount
  /\ activeEmailId = FreshSession.activeEmailId
  /\ results = FreshSession.results
  /\ analysisError = FreshSession.analysisError

\* A step of the run that a left session left in flight.
DetachedStep ==
  \/ DetachedAfterFirstFlush
  \/ DetachedClientReplies
  \/ DetachedClientThrows
  \/ DetachedAfterSecondFlush

\* C21: every session opened from Home starts with status idle,
\* processedCount 0, no active document, no result and no error, whatever the
\* session before it was doing when it was left, a run in flight included;
\* and no step of a run left in flight changes the pipeline state, the
\* client or the run of the session now shown.
C21_NewSessionStartsFresh ==
  /\ []((screen = "home" \/ event = "openEmails") =>
          (FreshPipeline /\ pc = "none" /\ ~isReady))
  /\ [][(screen = "home" /\ screen' = "emails") =>
          (FreshPipeline' /\ UNCHANGED detached)]_vars
  /\ [][DetachedStep =>
          UNCHANGED <<published, pc, index, isReady, isGenerating,
                      messageHistory, messageHistoryRef, calls>>]_vars

C21_Witness ==
  /\ screen = "emails"
  /\ detached = Some([pc |-> "flush2", index |-> 2])
  /\ analysisStatus = "running"
  /\ processedCount = 1
  /\ pc = "send"

\* C23: at most one analysis loop is in flight at any time, also after a
\* second start through the handler instance of the first; results never
\* holds two entries for one document and processedCount never exceeds
\* totalEmails.
C23_AtMostOneLoopInFlight ==
  /\ ~(pc # "none" /\ stalePc # "none")
  /\ \A i, j \in 1..Len(results) :
       results[i].email = results[j].email => i = j
  /\ processedCount <= totalEmails

\* What the two loops lead to.
C23_TwoEntriesForOneDocument ==
  \E i, j \in 1..Len(results) : i # j /\ results[i].email = results[j].email

C23_CountExceedsTotal == processedCount > totalEmails

\* The calls of a run alternate: configure, sendMessage, configure, ...
CallsAlternate ==
  \A j \in 1..Len(calls) :
    calls[j].op = (IF j % 2 = 1 THEN "configure" ELSE "sendMessage")

C26_FirstConfigureOnce ==
  /\ [][(event' = "render" /\ calls' # calls) =>
          /\ isReady
          /\ ~configuredRef
          /\ configuredRef'
          /\ pc = "none"
          /\ startedFrom = "never"
          /\ calls' = Append(calls, ConfigureCall(EMAIL_PURCHASE_EXTRACTION_PROMPT))
          /\ messageHistory' = <<>>]_vars
  /\ [][(configuredRef /\ ~configuredRef') =>
          (event' = "back" /\ screen' = "home")]_vars
  /\ [][(event' = "render" /\ (configuredRef \/ pc # "none")) =>
          UNCHANGED <<messageHistory, systemPrompt, calls>>]_vars
  /\ [](configuredRef => isReady)

C26_Witness ==
  /\ event = "render"
  /\ configuredRef
  /\ analysisStatus = "running"
  /\ pc = "flush2"
  /\ Len(messageHistory) = 2

SelectedCategories ==
  { filteredTransactions[k].category : k \in 1..Len(filteredTransactions) }

\* The sum of the amounts of the transactions of one category.
CategoryTotal(txs, name) ==
  SumAmounts(SelectSeq(txs, LAMBDA tx : tx.category = name))

RECURSIVE SumEntries(_)
SumEntries(entries) ==
  IF entries = <<>> THEN 0 ELSE SumEntries(Tail(entries)) + Head(entries).amount

Min(a, b) == IF a < b THEN a ELSE b

SelectedBy(filter) ==
  { k \in 1..Len(MOCK_SPEND_DATA) : Selects(filter, MOCK_SPEND_DATA[k]) }

\* C28: the time filters are nested: what Today selects Week selects, what
\* Week selects Month selects, what Month selects Year selects.
C28_FiltersAreNested ==
  /\ SelectedBy("today") \subseteq SelectedBy("week")
  /\ SelectedBy("week") \subseteq SelectedBy("month")
  /\ SelectedBy("month") \subseteq SelectedBy("year")

\* On 31 March, where "a month ago" carries over to 2 March, each filter
\* selects more than the one before it.
C28_Witness ==
  /\ screen = "analytics"
  /\ now = [y |-> 2024, m |-> 2, d |-> 31]
  /\ monthAgo = LocalMidnight(MakeDay(2024, 2, 2))
  /\ SelectedBy("today") # {}
  /\ SelectedBy("today") # SelectedBy("week")
  /\ SelectedBy("week") # SelectedBy("month")
  /\ SelectedBy("month") # SelectedBy("year")

\* C29: the labels and the data of dailySpendData have the same length;
\* there are at most ten points for Week, Month and Year, exactly one for
\* Today when a transaction is selected, and none when none is selected.
C29_DailySpendPoints ==
  LET points == dailySpendData
      selected == filteredTransactions
  IN  /\ Len(points.labels) = Len(points.data)
      /\ timeFilter # "today" => Len(points.data) <= 10
      /\ timeFilter = "today" /\ selected # <<>> => Len(points.data) = 1
      /\ selected = <<>> => Len(points.data) = 0

\* What does hold of the points: there are fewer than twenty.
C29_PointsBelowTwenty ==
  LET points == dailySpendData
      selected == filteredTransactions
  IN  /\ Len(points.labels) = Len(points.data)
      /\ timeFilter # "today" => Len(points.data) < 20
      /\ timeFilter = "today" /\ selected # <<>> => Len(points.data) = 1
      /\ selected = <<>> => Len(points.data) = 0

\* Eleven days selected give eleven points.
C29_ElevenPoints ==
  /\ screen = "analytics"
  /\ timeFilter = "month"
  /\ Len(sortedDates) = 11
  /\ Len(dailySpendData.data) = 11

\* No transaction selected on a filter other than Today: step is NaN and
\* there is no point.
C29_NoneSelected ==
  /\ screen = "analytics"
  /\ timeFilter = "week"
  /\ filteredTransactions = <<>>
  /\ step = "NaN"
  /\ dailySpendData.data = <<>>

\* The transactions generated for the day i days before the load.
MockCountOfDay(i) ==
  Cardinality({ k \in 1..Len(MOCK_SPEND_DATA) :
                  MOCK_SPEND_DATA[k].date = MockDate(i) })

\* C30: once generateMockTransactions has returned, each of the days it
\* went back over has between one and five transactions, today at least
\* one, and the list runs from the newest transaction to the oldest.
C30_EveryDayHasTransactions ==
  mockPc = "done" =>
    /\ \A i \in 0..(MaxMockDays - 1) :
         MockCountOfDay(i) >= 1 /\ MockCountOfDay(i) <= 5
    /\ MockCountOfDay(0) >= 1
    /\ \A k \in 1..(Len(MOCK_SPEND_DATA) - 1) :
         MOCK_SPEND_DATA[k].date >= MOCK_SPEND_DATA[k + 1].date

\* What does hold: a day before today has none to four transactions, today
\* has two to five, and the list runs from the newest to the oldest.
C30_PastDaysHaveUpToFour ==
  mockPc = "done" =>
    /\ \A i \in 1..(MaxMockDays - 1) : MockCountOfDay(i) <= 4
    /\ MockCountOfDay(0) >= 2 /\ MockCountOfDay(0) <= 5
    /\ \A k \in 1..(Len(MOCK_SPEND_DATA) - 1) :
         MOCK_SPEND_DATA[k].date >= MOCK_SPEND_DATA[k + 1].date

\* Yesterday got no transaction.
C30_EmptyDay ==
  /\ mockPc = "done"
  /\ MockCountOfDay(1) = 0
  /\ MockCountOfDay(0) = 2

====
